---- MODULE Spec2Model ----
(***************************************************************************)
(* Model of the climbing-map terrain tooling:                              *)
(*   - scripts/process_terrain.py  (GeoTIFF -> terrain tiles pipeline)     *)
(*   - scripts/process_laz.py      (LAZ -> DEM -> terrain tiles pipeline)  *)
(*   - server.py                   (static tile server, CORS + gzip)       *)
(* One behaviour is one execution of one of the three programs (prog).     *)
(* External tools are black boxes: each invocation returns an exit code    *)
(* and may or may not have written its output file.  The base classes of   *)
(* Python's http.server are modelled as far as the handler calls them.     *)
(***************************************************************************)
EXTENDS Integers, Sequences, FiniteSets, TLC

VARIABLES
    prog,        \* which program this execution runs
    argv,        \* sys.argv[1]: "none", "exists" (path exists), "missing"
    rawCount,    \* number of files in data/raw matching the script's globs
    tools,       \* executables on PATH: [docker, pdal, gdal, ctb -> BOOLEAN]
    fs,          \* set of existing paths under the project directory
    fs0,         \* fs when the program started
    nTerrain,    \* number of *.terrain files under terrain-tiles
    pc,          \* position of the script in main()
    deps,        \* result of check_dependencies()
    input_files, \* process_terrain: list of input rasters
    input_file,  \* process_terrain: raster handed to gdalwarp
    success,     \* process_laz: result of the conversion step
    log,         \* external commands invoked so far, in order
    exitStatus,  \* process exit status, -1 while running
    verified,    \* process_terrain: value returned by verify_output()
    req,         \* server: the request being answered
    resp,        \* server: what went on the wire for req
    runs,        \* two concurrent pipeline runs: position, locals, exit status
    shared,      \* which run last wrote each fixed intermediate path, 0: absent
    clog         \* external commands of the concurrent runs, in global order

vars == <<prog, argv, rawCount, tools, fs, fs0, nTerrain, pc, deps,
          input_files, input_file, success, log, exitStatus, verified,
          req, resp, runs, shared, clog>>

pipeVars == <<argv, rawCount, tools, fs, fs0, nTerrain, pc, deps,
              input_files, input_file, success, log, exitStatus, verified>>

srvVars == <<req, resp>>

concVars == <<runs, shared, clog>>

----------------------------------------------------------------------------
(* Bounds *)

MaxRaw == 2      \* at most this many matching files in data/raw
MaxTiles == 2    \* at most this many *.terrain files in terrain-tiles

----------------------------------------------------------------------------
(* Paths: request targets are sequences of characters *)

TerrainExt == <<".", "t", "e", "r", "r", "a", "i", "n">>
JsonExt == <<".", "j", "s", "o", "n">>

\* str.endswith
EndsWith(s, suffix) ==
    /\ Len(s) >= Len(suffix)
    /\ SubSeq(s, Len(s) - Len(suffix) + 1, Len(s)) = suffix

\* index of the first "?" or "#" in s, Len(s)+1 when there is none
RECURSIVE QueryStart(_, _)
QueryStart(s, i) ==
    IF i > Len(s) THEN i
    ELSE IF s[i] \in {"?", "#"} THEN i
    ELSE QueryStart(s, i + 1)

\* SimpleHTTPRequestHandler.translate_path: the query string and the
\* fragment are dropped before the target is looked up on disk
translate_path(p) == SubSeq(p, 1, QueryStart(p, 1) - 1)

PathTile == <<"/", "0">> \o TerrainExt
PathTileQuery == PathTile \o <<"?", "v">>
PathTileSlash == PathTile \o <<"/">>
PathTileX == PathTile \o <<"x">>
PathLayer == <<"/", "l">> \o JsonExt
PathRoot == <<"/">>
PathQueryTile == <<"/", "l", "?", "f", "=">> \o TerrainExt

RequestPaths == {PathTile, PathTileQuery, PathTileSlash, PathTileX,
                 PathLayer, PathRoot, PathQueryTile}

Commands == {"GET", "HEAD", "OPTIONS", "POST"}
Versions == {"HTTP/0.9", "HTTP/1.0", "HTTP/1.1"}
Targets == {"file", "dir", "missing"}

NoRequest == [line |-> "none"]
NoResponse == [sent |-> FALSE, status |-> 0, headers |-> <<>>, body |-> "none"]

----------------------------------------------------------------------------
(* server.py: CORSRequestHandler *)

\* a fresh handler object for one connection; self.path is not an attribute
\* until parse_request has accepted the request line
NewHandler(r) ==
    [request_version |-> (IF r.line = "ok" THEN r.version ELSE "HTTP/0.9"),
     command |-> (IF r.line = "ok" THEN r.command ELSE "none"),
     hasPath |-> (r.line = "ok"),
     path |-> (IF r.line = "ok" THEN r.path ELSE <<>>),
     code |-> 0, buf |-> <<>>, wire |-> <<>>, flushed |-> FALSE,
     crashed |-> FALSE]

\* BaseHTTPRequestHandler.send_response: status line, Server and Date
\* headers go to the header buffer unless the request is HTTP/0.9
send_response(h, code) ==
    IF h.request_version # "HTTP/0.9"
    THEN [h EXCEPT !.code = code,
                   !.buf = h.buf \o << <<"Server", "-">>, <<"Date", "-">> >>]
    ELSE h

\* BaseHTTPRequestHandler.send_header, as called from end_headers
send_header(h, keyword, value) ==
    IF h.request_version # "HTTP/0.9"
    THEN [h EXCEPT !.buf = Append(h.buf, <<keyword, value>>)]
    ELSE h

\* BaseHTTPRequestHandler.end_headers (super().end_headers()): flush
base_end_headers(h) ==
    IF h.request_version # "HTTP/0.9"
    THEN [h EXCEPT !.wire = h.buf, !.buf = <<>>, !.flushed = TRUE]
    ELSE h

\* end_headers with the extension test made on the translated path (query
\* string dropped) instead of self.path
end_headers_translated(h) ==
    LET h1 == send_header(h, "Access-Control-Allow-Origin", "*")
        h2 == send_header(h1, "Access-Control-Allow-Methods", "GET, OPTIONS")
        h3 == send_header(h2, "Access-Control-Allow-Headers", "*")
    IN  IF ~h.hasPath
        THEN [h3 EXCEPT !.crashed = TRUE]
        ELSE IF EndsWith(translate_path(h.path), TerrainExt)
             THEN base_end_headers(
                      send_header(send_header(h3, "Content-Encoding", "gzip"),
                                  "Content-Type", "application/octet-stream"))
             ELSE base_end_headers(h3)

\* end_headers with the CORS headers sent inside the terrain branch only
end_headers_cors_in_branch(h) ==
    IF ~h.hasPath
    THEN [h EXCEPT !.crashed = TRUE]
    ELSE IF EndsWith(h.path, TerrainExt)
         THEN LET h1 == send_header(h, "Access-Control-Allow-Origin", "*")
                  h2 == send_header(h1, "Access-Control-Allow-Methods", "GET, OPTIONS")
                  h3 == send_header(h2, "Access-Control-Allow-Headers", "*")
              IN  base_end_headers(
                      send_header(send_header(h3, "Content-Encoding", "gzip"),
                                  "Content-Type", "application/octet-stream"))
         ELSE base_end_headers(h)

\* CORSRequestHandler.end_headers
end_headers(h) ==
    LET h1 == send_header(h, "Access-Control-Allow-Origin", "*")
        h2 == send_header(h1, "Access-Control-Allow-Methods", "GET, OPTIONS")
        h3 == send_header(h2, "Access-Control-Allow-Headers", "*")
    IN  IF ~h.hasPath
        THEN [h3 EXCEPT !.crashed = TRUE]      \* AttributeError on self.path
        ELSE IF EndsWith(h.path, TerrainExt)
             THEN base_end_headers(
                      send_header(send_header(h3, "Content-Encoding", "gzip"),
                                  "Content-Type", "application/octet-stream"))
             ELSE base_end_headers(h3)

\* SimpleHTTPRequestHandler.guess_type: by extension, with the default type
base_guess_type(path) ==
    IF EndsWith(path, JsonExt) THEN "application/json"
    ELSE "application/octet-stream"

\* CORSRequestHandler.guess_type
guess_type(path) ==
    IF EndsWith(path, TerrainExt) THEN "application/octet-stream"
    ELSE base_guess_type(path)

\* what reached the client once the handler returned or raised
Wire(h, body) ==
    IF h.crashed THEN NoResponse
    ELSE [sent |-> (h.flushed \/ body # "none"),
          status |-> (IF h.flushed THEN h.code ELSE 0),
          headers |-> h.wire,
          body |-> body]

\* BaseHTTPRequestHandler.send_error: response line, Connection,
\* Content-Type and Content-Length headers, end_headers(), then the body
\* unless the request is HEAD
send_error(h, code) ==
    LET h1 == send_response(h, code)
        h2 == send_header(h1, "Connection", "close")
        h3 == send_header(h2, "Content-Type", "text/html;charset=utf-8")
        h4 == send_header(h3, "Content-Length", "n")
        h5 == end_headers(h4)
    IN  Wire(h5, IF h.command = "HEAD" THEN "none" ELSE "html")

\* SimpleHTTPRequestHandler.send_head followed by the body copy of do_GET
\* (withBody) or nothing (do_HEAD)
send_head(h, target, fresh, withBody) ==
    LET path == translate_path(h.path)
    IN  IF target = "dir"
        THEN IF ~EndsWith(path, <<"/">>)
             THEN \* redirect browser
                  LET h1 == send_response(h, 301)
                      h2 == send_header(h1, "Location", "-")
                      h3 == send_header(h2, "Content-Length", "0")
                  IN  Wire(end_headers(h3), "none")
             ELSE \* list_directory
                  LET h1 == send_response(h, 200)
                      h2 == send_header(h1, "Content-type", "text/html; charset=utf-8")
                      h3 == send_header(h2, "Content-Length", "n")
                  IN  Wire(end_headers(h3), IF withBody THEN "html" ELSE "none")
        ELSE IF target = "missing" \/ EndsWith(path, <<"/">>)
        THEN send_error(h, 404)
        ELSE IF fresh
        THEN \* If-Modified-Since matched
             Wire(end_headers(send_response(h, 304)), "none")
        ELSE LET h1 == send_response(h, 200)
                 h2 == send_header(h1, "Content-type", guess_type(path))
                 h3 == send_header(h2, "Content-Length", "n")
                 h4 == send_header(h3, "Last-Modified", "-")
             IN  Wire(end_headers(h4), IF withBody THEN "file" ELSE "none")

\* CORSRequestHandler.do_OPTIONS
do_OPTIONS(h) == Wire(end_headers(send_response(h, 200)), "none")

\* HTTP header names are case-insensitive
Canon(name) == IF name = "Content-type" THEN "Content-Type" ELSE name

HasHeader(r, name, value) ==
    \E i \in 1..Len(r.headers) :
        Canon(r.headers[i][1]) = name /\ r.headers[i][2] = value

HasHeaderName(r, name) ==
    \E i \in 1..Len(r.headers) : Canon(r.headers[i][1]) = name

WellFormed ==
    {r \in [line : {"ok"}, command : Commands, path : RequestPaths,
            version : Versions, target : Targets, fresh : BOOLEAN] :
        \* parse_request accepts a two-word request line only for GET
        /\ (r.version = "HTTP/0.9" => r.command = "GET")
        \* a target with a trailing slash is never a regular file
        /\ (EndsWith(translate_path(r.path), <<"/">>) => r.target # "file")
        /\ (r.fresh => r.target = "file" /\ r.command \in {"GET", "HEAD"})}

\* request line rejected by parse_request (bad syntax, bad version, an
\* HTTP/0.9 request that is not GET) or longer than 65536 bytes:
\* send_error runs before self.path exists
SrvBadRequest ==
    /\ prog = "server"
    /\ \E code \in {400, 414, 505} :
          /\ req' = [line |-> "malformed", code |-> code]
          /\ resp' = send_error(NewHandler(req'), code)
    /\ UNCHANGED <<prog, pipeVars, concVars>>

SrvGET ==
    /\ prog = "server"
    /\ \E r \in WellFormed :
          /\ r.command = "GET"
          /\ req' = r
          /\ resp' = send_head(NewHandler(r), r.target, r.fresh, TRUE)
    /\ UNCHANGED <<prog, pipeVars, concVars>>

SrvHEAD ==
    /\ prog = "server"
    /\ \E r \in WellFormed :
          /\ r.command = "HEAD"
          /\ req' = r
          /\ resp' = send_head(NewHandler(r), r.target, r.fresh, FALSE)
    /\ UNCHANGED <<prog, pipeVars, concVars>>

SrvOPTIONS ==
    /\ prog = "server"
    /\ \E r \in WellFormed :
          /\ r.command = "OPTIONS"
          /\ req' = r
          /\ resp' = do_OPTIONS(NewHandler(r))
    /\ UNCHANGED <<prog, pipeVars, concVars>>

\* handle_one_request: no do_<command> method on the handler
SrvUnsupported ==
    /\ prog = "server"
    /\ \E r \in WellFormed :
          /\ r.command \notin {"GET", "HEAD", "OPTIONS"}
          /\ req' = r
          /\ resp' = send_error(NewHandler(r), 501)
    /\ UNCHANGED <<prog, pipeVars, concVars>>

ServerNext == SrvBadRequest \/ SrvGET \/ SrvHEAD \/ SrvOPTIONS \/ SrvUnsupported

----------------------------------------------------------------------------
(* Filesystem names *)

RAW_DATA_DIR == "data/raw"
PROCESSED_DIR == "data/processed"
OUTPUT_DIR == "terrain-tiles"
MergedTif == "data/processed/merged.tif"
Wgs84Tif == "data/processed/wgs84.tif"
DemTif == "data/processed/dem.tif"
OutputTif == "data/processed/output.tif"
PipelineJson == "data/processed/pipeline.json"
LayerJson == "terrain-tiles/layer.json"
ArgInput == "argv/input"

ProcessedPaths == {PROCESSED_DIR, MergedTif, Wgs84Tif, DemTif, OutputTif,
                   PipelineJson}
OutputPaths == {OUTPUT_DIR, LayerJson}

\* Path.mkdir(parents=True, exist_ok=True)
mkdir(f, d) == f \cup {d}

\* what an earlier run may have left behind: it got as far as some stage
\* (dem.tif, wgs84.tif, tiles, layer.json) and every stage before it
LeftoverStages == 0..4

Leftover(k) ==
    (IF k >= 1 THEN {PROCESSED_DIR, DemTif} ELSE {})
    \cup (IF k >= 2 THEN {Wgs84Tif} ELSE {})
    \cup (IF k >= 3 THEN {OUTPUT_DIR} ELSE {})
    \cup (IF k >= 4 THEN {LayerJson} ELSE {})

\* deps before the probe, and the False that check_dependencies of
\* process_terrain returns
NoDeps == [ok |-> FALSE, docker |-> FALSE, pdal |-> FALSE, gdal |-> FALSE,
           ctb |-> FALSE]

\* the two runs of the concurrency analysis
Runs == {1, 2}

\* the fixed paths every run writes
SharedPaths == {MergedTif, DemTif, OutputTif, Wgs84Tif, PipelineJson, LayerJson}

IdleRun == [pc |-> "idle", input_file |-> "unset", success |-> "unset",
            exitStatus |-> -1]

AllTools == [docker : BOOLEAN, pdal : BOOLEAN, gdal : BOOLEAN, ctb : BOOLEAN]

----------------------------------------------------------------------------

Init ==
    /\ prog \in {"terrain", "laz", "server"}
    /\ IF prog = "server"
       THEN /\ argv = "none" /\ rawCount = 0
            /\ tools = [docker |-> FALSE, pdal |-> FALSE, gdal |-> FALSE, ctb |-> FALSE]
            /\ fs = {} /\ nTerrain = 0
       ELSE /\ argv \in {"none", "exists", "missing"}
            /\ rawCount \in 0..MaxRaw
            /\ tools \in AllTools
            /\ \E k \in LeftoverStages :
                  /\ fs = Leftover(k)
                            \cup (IF rawCount > 0 THEN {RAW_DATA_DIR} ELSE {})
                  /\ nTerrain = IF k >= 3 THEN MaxTiles ELSE 0
    /\ fs0 = fs
    /\ pc = IF prog = "server" THEN "serving" ELSE "start"
    /\ deps = NoDeps
    /\ input_files = <<>>
    /\ input_file = "unset"
    /\ success = "unset"
    /\ log = <<>>
    /\ exitStatus = -1
    /\ verified = "unset"
    /\ req = NoRequest
    /\ resp = NoResponse
    /\ runs = [r \in Runs |-> IdleRun]
    /\ shared = [f \in SharedPaths |-> 0]
    /\ clog = <<>>

----------------------------------------------------------------------------
(* External tools *)

\* what one blocking subprocess call can come back with: an exit code, and
\* whether its output file was written
Outcomes == [rc : {0, 1}, wrote : BOOLEAN]

Invocation(tool, via, mode, input, output, o) ==
    [tool |-> tool, via |-> via, mode |-> mode, input |-> input,
     output |-> output, rc |-> o.rc, wrote |-> o.wrote]

\* the fixed flags of each command line
MergeFlags == <<"-o">>
TerrainWarpFlags == <<"-t_srs", "EPSG:4326", "-r", "bilinear", "-of", "GTiff">>
LazWarpFlags == <<"-t_srs", "EPSG:4326", "-r", "bilinear", "-of", "GTiff",
                  "-co", "COMPRESS=LZW">>
MeshFlags == <<"-f", "Mesh", "-C", "-N">>
LayerFlags == <<"-f", "Mesh", "-l">>
InfoFlags == <<"--summary">>
PipelineFlags == <<"--readers.las.filename", "--writers.gdal.filename">>
TranslateFlags == <<"--writers.gdal.resolution=1.0",
                    "--writers.gdal.output_type=idw">>

\* filesystem after a tool that writes the file out
Written(f, out, o) == IF o.wrote THEN f \cup {out} ELSE f

\* a Python bool held in a variable that starts out unset
PyBool(b) == IF b THEN "True" ELSE "False"

\* sys.exit(code), or an uncaught exception (status 1)
Exit(code) == pc' = "done" /\ exitStatus' = code

RawNames == <<"data/raw/a.tif", "data/raw/b.tif", "data/raw/c.tif",
              "data/raw/d.tif">>

----------------------------------------------------------------------------
(* scripts/process_terrain.py *)

\* check_dependencies(): False (ok is FALSE), or the tuple
\* (docker_available, gdal_available, ctb_available)
check_dependencies(t) ==
    IF ~t.docker /\ ~(t.gdal /\ t.ctb)
    THEN NoDeps
    ELSE [ok |-> TRUE, docker |-> t.docker, pdal |-> FALSE,
          gdal |-> t.gdal, ctb |-> t.ctb]

\* find_input_files that falls back to a default name when the glob is empty
find_input_files_default(n) == SubSeq(RawNames, 1, IF n = 0 THEN 1 ELSE n)

\* find_input_files(): the *.tif and *.tiff files of data/raw
find_input_files(n) == SubSeq(RawNames, 1, n)

\* verify_output that also wants at least one tile
verify_output_needs_tiles(f, tiles) == LayerJson \in f /\ tiles > 0

\* verify_output(): True exactly when layer.json exists; the tile count is
\* only printed
verify_output(f, tiles) ==
    IF LayerJson \in f
    THEN LET terrain_files == tiles
         IN  TRUE
    ELSE FALSE

\* main(): dependency check
T_CheckDeps ==
    /\ prog = "terrain" /\ pc = "start"
    /\ deps' = check_dependencies(tools)
    /\ IF ~deps'.ok THEN Exit(1)
       ELSE pc' = "t_input" /\ UNCHANGED exitStatus
    /\ UNCHANGED <<prog, argv, rawCount, tools, fs, fs0, nTerrain,
                   input_files, input_file, success, log, verified, srvVars, concVars>>

\* main(): command line argument or find_input_files()
T_Input ==
    /\ prog = "terrain" /\ pc = "t_input"
    /\ IF argv = "exists"
       THEN /\ input_files' = <<ArgInput>>
            /\ pc' = "t_process"
            /\ UNCHANGED <<fs, exitStatus>>
       ELSE IF argv = "missing"
       THEN /\ Exit(1)
            /\ UNCHANGED <<fs, input_files>>
       ELSE /\ fs' = mkdir(fs, RAW_DATA_DIR)
            /\ input_files' = find_input_files(rawCount)
            /\ IF input_files' = <<>> THEN Exit(1)
               ELSE pc' = "t_process" /\ UNCHANGED exitStatus
    /\ UNCHANGED <<prog, argv, rawCount, tools, fs0, nTerrain, deps,
                   input_file, success, log, verified, srvVars, concVars>>

\* process_with_docker / process_with_local_tools: both mkdir calls
ProcessDirs(f) == mkdir(mkdir(f, PROCESSED_DIR), OUTPUT_DIR)

\* subprocess.run(cmd, check=True): a non-zero exit raises
\* CalledProcessError, which main() turns into sys.exit(1)
RunChecked(inv, f, next) ==
    /\ log' = Append(log, inv)
    /\ fs' = Written(f, inv.output, inv)
    /\ IF inv.rc # 0 THEN Exit(1)
       ELSE pc' = next /\ UNCHANGED exitStatus

\* process_with_docker: merge of several inputs
TD_Merge ==
    /\ prog = "terrain" /\ pc = "t_process" /\ deps.docker
    /\ Len(input_files) > 1
    /\ \E o \in Outcomes :
          /\ RunChecked(Invocation("gdal_merge.py", "docker", MergeFlags,
                                   input_files, MergedTif, o),
                        ProcessDirs(fs), "td_warp")
          /\ input_file' = IF o.rc = 0 THEN MergedTif ELSE input_file
    /\ UNCHANGED <<prog, argv, rawCount, tools, fs0, nTerrain, deps,
                   input_files, success, verified, srvVars, concVars>>

\* process_with_docker: a single input is used as it is
TD_Single ==
    /\ prog = "terrain" /\ pc = "t_process" /\ deps.docker
    /\ Len(input_files) <= 1
    /\ fs' = ProcessDirs(fs)
    /\ input_file' = input_files[1]
    /\ pc' = "td_warp"
    /\ UNCHANGED <<prog, argv, rawCount, tools, fs0, nTerrain, deps,
                   input_files, success, log, exitStatus, verified, srvVars, concVars>>

\* process_with_docker: gdalwarp
TD_Reproject ==
    /\ prog = "terrain" /\ pc = "td_warp"
    /\ \E o \in Outcomes :
          RunChecked(Invocation("gdalwarp", "docker", TerrainWarpFlags,
                                <<input_file>>, Wgs84Tif, o),
                     fs, "td_tile")
    /\ UNCHANGED <<prog, argv, rawCount, tools, fs0, nTerrain, deps,
                   input_files, input_file, success, verified, srvVars, concVars>>

\* process_with_docker: ctb-tile -C -N
TD_Tile ==
    /\ prog = "terrain" /\ pc = "td_tile"
    /\ \E o \in Outcomes :
          /\ RunChecked(Invocation("ctb-tile", "docker", MeshFlags,
                                   <<Wgs84Tif>>, OUTPUT_DIR, o),
                        fs, "td_layer")
          /\ nTerrain' = IF o.wrote THEN MaxTiles ELSE nTerrain
    /\ UNCHANGED <<prog, argv, rawCount, tools, fs0, deps,
                   input_files, input_file, success, verified, srvVars, concVars>>

\* the layer step run with the flags of the mesh step (-C -N instead of -l)
TD_Layer_mesh_flags ==
    /\ prog = "terrain" /\ pc = "td_layer"
    /\ \E o \in Outcomes :
          RunChecked(Invocation("ctb-tile", "docker", MeshFlags,
                                <<Wgs84Tif>>, OUTPUT_DIR, o),
                     fs, "t_verify")
    /\ UNCHANGED <<prog, argv, rawCount, tools, fs0, nTerrain, deps,
                   input_files, input_file, success, verified, srvVars, concVars>>

\* process_with_docker: ctb-tile -l
TD_Layer ==
    /\ prog = "terrain" /\ pc = "td_layer"
    /\ \E o \in Outcomes :
          RunChecked(Invocation("ctb-tile", "docker", LayerFlags,
                                <<Wgs84Tif>>, LayerJson, o),
                     fs, "t_verify")
    /\ UNCHANGED <<prog, argv, rawCount, tools, fs0, nTerrain, deps,
                   input_files, input_file, success, verified, srvVars, concVars>>

\* the local merge without "input_file = merged_file": the first input is
\* reprojected
TL_Merge_first_input ==
    /\ prog = "terrain" /\ pc = "t_process" /\ ~deps.docker
    /\ Len(input_files) > 1
    /\ \E o \in Outcomes :
          /\ RunChecked(Invocation("gdal_merge.py", "local", MergeFlags,
                                   input_files, MergedTif, o),
                        ProcessDirs(fs), "tl_warp")
          /\ input_file' = IF o.rc = 0 THEN input_files[1] ELSE input_file
    /\ UNCHANGED <<prog, argv, rawCount, tools, fs0, nTerrain, deps,
                   input_files, success, verified, srvVars, concVars>>

\* process_with_local_tools: merge of several inputs
TL_Merge ==
    /\ prog = "terrain" /\ pc = "t_process" /\ ~deps.docker
    /\ Len(input_files) > 1
    /\ \E o \in Outcomes :
          /\ RunChecked(Invocation("gdal_merge.py", "local", MergeFlags,
                                   input_files, MergedTif, o),
                        ProcessDirs(fs), "tl_warp")
          /\ input_file' = IF o.rc = 0 THEN MergedTif ELSE input_file
    /\ UNCHANGED <<prog, argv, rawCount, tools, fs0, nTerrain, deps,
                   input_files, success, verified, srvVars, concVars>>

\* process_with_local_tools: a single input is used as it is
TL_Single ==
    /\ prog = "terrain" /\ pc = "t_process" /\ ~deps.docker
    /\ Len(input_files) <= 1
    /\ fs' = ProcessDirs(fs)
    /\ input_file' = input_files[1]
    /\ pc' = "tl_warp"
    /\ UNCHANGED <<prog, argv, rawCount, tools, fs0, nTerrain, deps,
                   input_files, success, log, exitStatus, verified, srvVars, concVars>>

\* process_with_local_tools: gdalwarp; without ctb-tile the function only
\* prints advice after it
TL_Reproject ==
    /\ prog = "terrain" /\ pc = "tl_warp"
    /\ \E o \in Outcomes :
          RunChecked(Invocation("gdalwarp", "local", TerrainWarpFlags,
                                <<input_file>>, Wgs84Tif, o),
                     fs, IF deps.ctb THEN "tl_tile" ELSE "t_verify")
    /\ UNCHANGED <<prog, argv, rawCount, tools, fs0, nTerrain, deps,
                   input_files, input_file, success, verified, srvVars, concVars>>

\* process_with_local_tools: ctb-tile -C -N
TL_Tile ==
    /\ prog = "terrain" /\ pc = "tl_tile"
    /\ \E o \in Outcomes :
          /\ RunChecked(Invocation("ctb-tile", "local", MeshFlags,
                                   <<Wgs84Tif>>, OUTPUT_DIR, o),
                        fs, "tl_layer")
          /\ nTerrain' = IF o.wrote THEN MaxTiles ELSE nTerrain
    /\ UNCHANGED <<prog, argv, rawCount, tools, fs0, deps,
                   input_files, input_file, success, verified, srvVars, concVars>>

\* process_with_local_tools: ctb-tile -l
TL_Layer ==
    /\ prog = "terrain" /\ pc = "tl_layer"
    /\ \E o \in Outcomes :
          RunChecked(Invocation("ctb-tile", "local", LayerFlags,
                                <<Wgs84Tif>>, LayerJson, o),
                     fs, "t_verify")
    /\ UNCHANGED <<prog, argv, rawCount, tools, fs0, nTerrain, deps,
                   input_files, input_file, success, verified, srvVars, concVars>>

\* main(): verify_output() is called and its result dropped; main returns
T_Verify ==
    /\ prog = "terrain" /\ pc = "t_verify"
    /\ verified' = PyBool(verify_output(fs, nTerrain))
    /\ Exit(0)
    /\ UNCHANGED <<prog, argv, rawCount, tools, fs, fs0, nTerrain, deps,
                   input_files, input_file, success, log, srvVars, concVars>>

TerrainNext ==
    \/ T_CheckDeps \/ T_Input
    \/ TD_Merge \/ TD_Single \/ TD_Reproject \/ TD_Tile \/ TD_Layer
    \/ TL_Merge \/ TL_Single \/ TL_Reproject \/ TL_Tile \/ TL_Layer
    \/ T_Verify

----------------------------------------------------------------------------
(* scripts/process_laz.py *)

RawLaz == "data/raw/a.laz"

\* check_dependencies() of process_laz: a dict of three probes
laz_check_dependencies(t) ==
    [ok |-> TRUE, docker |-> t.docker, pdal |-> t.pdal, gdal |-> t.gdal,
     ctb |-> FALSE]

\* subprocess.run(cmd, capture_output=True): the exit code is returned,
\* nothing is raised for a non-zero exit
Run(inv, f) ==
    /\ log' = Append(log, inv)
    /\ fs' = Written(f, inv.output, inv)

\* shutil.move(src, dst) for an existing src
move(f, src, dst) == (f \ {src}) \cup {dst}

\* main(): input file from the command line or the first *.laz / *.las
L_Input ==
    /\ prog = "laz" /\ pc = "start"
    /\ IF argv = "none"
       THEN /\ fs' = mkdir(fs, RAW_DATA_DIR)
            /\ IF rawCount = 0
               THEN Exit(1) /\ UNCHANGED input_file
               ELSE /\ input_file' = RawLaz
                    /\ pc' = "l_deps" /\ UNCHANGED exitStatus
       ELSE /\ UNCHANGED fs
            /\ IF argv = "missing"
               THEN Exit(1) /\ UNCHANGED input_file
               ELSE /\ input_file' = ArgInput
                    /\ pc' = "l_deps" /\ UNCHANGED exitStatus
    /\ UNCHANGED <<prog, argv, rawCount, tools, fs0, nTerrain, deps,
                   input_files, success, log, verified, srvVars, concVars>>

\* main(): dependency gate
L_Deps ==
    /\ prog = "laz" /\ pc = "l_deps"
    /\ deps' = laz_check_dependencies(tools)
    /\ IF ~deps'.docker /\ ~deps'.pdal THEN Exit(1)
       ELSE pc' = "l_info" /\ UNCHANGED exitStatus
    /\ UNCHANGED <<prog, argv, rawCount, tools, fs, fs0, nTerrain,
                   input_files, input_file, success, log, verified, srvVars, concVars>>

\* get_file_info(laz_file), then PROCESSED_DIR.mkdir in main()
L_FileInfo ==
    /\ prog = "laz" /\ pc = "l_info"
    /\ \E rc \in {0, 1} :
          LET o == [rc |-> rc, wrote |-> FALSE]
              inv == IF tools.pdal
                     THEN Invocation("pdal info", "local", InfoFlags,
                                     <<input_file>>, "stdout", o)
                     ELSE Invocation("pdal info", "docker", InfoFlags,
                                     <<input_file>>, "stdout", o)
          IN  Run(inv, mkdir(fs, PROCESSED_DIR))
    /\ pc' = "l_convert"
    /\ UNCHANGED <<prog, argv, rawCount, tools, fs0, nTerrain, deps,
                   input_files, input_file, success, exitStatus, verified,
                   srvVars, concVars>>

\* convert_laz_to_dem_docker: pdal pipeline in the container
L_ConvertDocker ==
    /\ prog = "laz" /\ pc = "l_convert" /\ deps.docker
    /\ \E o \in Outcomes :
          LET inv == Invocation("pdal pipeline", "docker", PipelineFlags,
                                <<input_file>>, OutputTif, o)
              f1 == Written(mkdir(fs, PROCESSED_DIR) \cup {PipelineJson},
                            OutputTif, o)
              f2 == IF OutputTif \in f1 THEN move(f1, OutputTif, DemTif) ELSE f1
          IN  /\ log' = Append(log, inv)
              /\ IF o.rc # 0
                 THEN /\ fs' = f1
                      /\ pc' = "l_fallback"
                      /\ UNCHANGED success
                 ELSE /\ fs' = f2
                      /\ success' = PyBool(DemTif \in f2)
                      /\ pc' = "l_check"
    /\ UNCHANGED <<prog, argv, rawCount, tools, fs0, nTerrain, deps,
                   input_files, input_file, exitStatus, verified, srvVars, concVars>>

\* convert_laz_simple_docker: pdal translate in the container; the
\* temporary output and the final output are the same path
L_Fallback ==
    /\ prog = "laz" /\ pc = "l_fallback"
    /\ \E o \in Outcomes :
          LET inv == Invocation("pdal translate", "docker", TranslateFlags,
                                <<input_file>>, DemTif, o)
              f1 == Written(fs, DemTif, o)
          IN  /\ log' = Append(log, inv)
              /\ fs' = IF DemTif \in f1 THEN move(f1, DemTif, DemTif) ELSE f1
              /\ success' = PyBool(DemTif \in f1)
    /\ pc' = "l_check"
    /\ UNCHANGED <<prog, argv, rawCount, tools, fs0, nTerrain, deps,
                   input_files, input_file, exitStatus, verified, srvVars, concVars>>

\* convert_laz_to_dem_pdal: local pdal pipeline, no fallback
L_ConvertPdal ==
    /\ prog = "laz" /\ pc = "l_convert" /\ ~deps.docker /\ deps.pdal
    /\ \E o \in Outcomes :
          LET inv == Invocation("pdal pipeline", "local", <<>>,
                                <<input_file>>, DemTif, o)
              f1 == Written(mkdir(fs, PROCESSED_DIR) \cup {PipelineJson},
                            DemTif, o)
          IN  /\ log' = Append(log, inv)
              /\ fs' = f1
              /\ success' = IF o.rc # 0 THEN "False" ELSE PyBool(DemTif \in f1)
    /\ pc' = "l_check"
    /\ UNCHANGED <<prog, argv, rawCount, tools, fs0, nTerrain, deps,
                   input_files, input_file, exitStatus, verified, srvVars, concVars>>

\* main(): "if not success or not dem_file.exists()"
L_Check ==
    /\ prog = "laz" /\ pc = "l_check"
    /\ IF success # "True" \/ DemTif \notin fs THEN Exit(1)
       ELSE pc' = "l_reproject" /\ UNCHANGED exitStatus
    /\ UNCHANGED <<prog, argv, rawCount, tools, fs, fs0, nTerrain, deps,
                   input_files, input_file, success, log, verified, srvVars, concVars>>

\* reproject_to_wgs84: "if shutil.which('docker')" branch; when wgs84.tif
\* does not exist afterwards the function goes on to the local branch
L_ReprojectDocker ==
    /\ prog = "laz" /\ pc = "l_reproject" /\ tools.docker
    /\ \E o \in Outcomes :
          LET inv == Invocation("gdalwarp", "docker", LazWarpFlags,
                                <<DemTif>>, Wgs84Tif, o)
              f1 == Written(fs, Wgs84Tif, o)
          IN  /\ log' = Append(log, inv)
              /\ IF Wgs84Tif \in f1
                 THEN /\ fs' = move(f1, Wgs84Tif, Wgs84Tif)
                      /\ pc' = "l_tile"
                 ELSE /\ fs' = f1
                      /\ pc' = "l_reproject_local"
    /\ UNCHANGED <<prog, argv, rawCount, tools, fs0, nTerrain, deps,
                   input_files, input_file, success, exitStatus, verified,
                   srvVars, concVars>>

\* reproject_to_wgs84: "if shutil.which('gdalwarp')" branch and the final
\* "No GDAL available" return; main() exits 1 on False
L_ReprojectLocal ==
    /\ prog = "laz"
    /\ \/ pc = "l_reproject" /\ ~tools.docker
       \/ pc = "l_reproject_local"
    /\ IF tools.gdal
       THEN \E o \in Outcomes :
               LET inv == Invocation("gdalwarp", "local", LazWarpFlags,
                                     <<DemTif>>, Wgs84Tif, o)
               IN  /\ Run(inv, fs)
                   /\ IF Wgs84Tif \in fs'
                      THEN pc' = "l_tile" /\ UNCHANGED exitStatus
                      ELSE Exit(1)
       ELSE /\ Exit(1)
            /\ UNCHANGED <<fs, log>>
    /\ UNCHANGED <<prog, argv, rawCount, tools, fs0, nTerrain, deps,
                   input_files, input_file, success, verified, srvVars, concVars>>

\* create_terrain_tiles: ctb-tile -C -N, always through docker; a non-zero
\* exit is only a warning.  Without a docker executable subprocess.run
\* raises FileNotFoundError, which nothing catches.
L_Tile ==
    /\ prog = "laz" /\ pc = "l_tile"
    /\ IF tools.docker
       THEN \E o \in Outcomes :
               /\ Run(Invocation("ctb-tile", "docker", MeshFlags,
                                 <<Wgs84Tif>>, OUTPUT_DIR, o),
                      mkdir(fs, OUTPUT_DIR))
               /\ nTerrain' = IF o.wrote THEN MaxTiles ELSE nTerrain
               /\ pc' = "l_layer" /\ UNCHANGED exitStatus
       ELSE /\ Run(Invocation("ctb-tile", "docker", MeshFlags,
                              <<Wgs84Tif>>, OUTPUT_DIR,
                              [rc |-> 127, wrote |-> FALSE]),
                   mkdir(fs, OUTPUT_DIR))
            /\ Exit(1)
            /\ UNCHANGED nTerrain
    /\ UNCHANGED <<prog, argv, rawCount, tools, fs0, deps,
                   input_files, input_file, success, verified, srvVars, concVars>>

\* create_terrain_tiles: ctb-tile -l, exit code ignored; returns whether
\* layer.json exists
L_Layer ==
    /\ prog = "laz" /\ pc = "l_layer"
    /\ \E o \in Outcomes :
          Run(Invocation("ctb-tile", "docker", LayerFlags,
                         <<Wgs84Tif>>, LayerJson, o), fs)
    /\ verified' = PyBool(LayerJson \in fs')
    /\ pc' = "l_verify"
    /\ UNCHANGED <<prog, argv, rawCount, tools, fs0, nTerrain, deps,
                   input_files, input_file, success, exitStatus, srvVars, concVars>>

\* main(): the VERIFICATION block only prints; main returns normally
L_Verify ==
    /\ prog = "laz" /\ pc = "l_verify"
    /\ Exit(0)
    /\ UNCHANGED <<prog, argv, rawCount, tools, fs, fs0, nTerrain, deps,
                   input_files, input_file, success, log, verified, srvVars, concVars>>

LazNext ==
    \/ L_Input \/ L_Deps \/ L_FileInfo
    \/ L_ConvertDocker \/ L_Fallback \/ L_ConvertPdal \/ L_Check
    \/ L_ReprojectDocker \/ L_ReprojectLocal
    \/ L_Tile \/ L_Layer \/ L_Verify

----------------------------------------------------------------------------

Next == ServerNext \/ TerrainNext \/ LazNext

Spec == Init /\ [][Next]_vars

\* one execution of process_terrain.py on its own
TerrainInit == Init /\ prog = "terrain"

\* every subprocess call is blocking and returns, so a running script
\* always takes its next step
TerrainFairSpec ==
    TerrainInit /\ [][TerrainNext]_vars /\ WF_vars(TerrainNext)

----------------------------------------------------------------------------
(* Two runs of one script at the same time, on the same data/processed and *)
(* terrain-tiles.  Each run has passed its input and dependency checks on  *)
(* a host with docker; a step is one blocking subprocess call with the     *)
(* code up to the next call.                                               *)

\* a tool either exits 0 having written its output or exits 1 without it
ConcOutcomes == {o \in Outcomes : (o.rc = 0) = o.wrote}

ConcInvocation(r, tool, reads, output, o) ==
    [run |-> r, tool |-> tool, reads |-> reads, output |-> output,
     rc |-> o.rc, wrote |-> o.wrote]

\* the fixed path out now holds what run r wrote
WrittenBy(sh, out, r, o) == IF o.wrote THEN [sh EXCEPT ![out] = r] ELSE sh

RunExit(r, code) ==
    runs' = [runs EXCEPT ![r].pc = "done", ![r].exitStatus = code]

RunGoto(r, next) == runs' = [runs EXCEPT ![r].pc = next]

\* process_with_docker: gdal_merge.py into merged.tif
CT_Merge(r) ==
    /\ prog = "terrain" /\ runs[r].pc = "t_process" /\ rawCount > 1
    /\ \E o \in ConcOutcomes :
          /\ clog' = Append(clog, ConcInvocation(r, "gdal_merge.py", 0,
                                                 MergedTif, o))
          /\ shared' = WrittenBy(shared, MergedTif, r, o)
          /\ IF o.rc # 0 THEN RunExit(r, 1)
             ELSE runs' = [runs EXCEPT ![r].pc = "td_warp",
                                       ![r].input_file = MergedTif]
    /\ UNCHANGED <<prog, pipeVars, srvVars>>

\* process_with_docker: single input
CT_Single(r) ==
    /\ prog = "terrain" /\ runs[r].pc = "t_process" /\ rawCount <= 1
    /\ runs' = [runs EXCEPT ![r].pc = "td_warp",
                            ![r].input_file = RawNames[1]]
    /\ UNCHANGED <<prog, pipeVars, srvVars, shared, clog>>

\* process_with_docker: gdalwarp input_file -> wgs84.tif
CT_Reproject(r) ==
    /\ prog = "terrain" /\ runs[r].pc = "td_warp"
    /\ \E o \in ConcOutcomes :
          /\ clog' = Append(clog,
                 ConcInvocation(r, "gdalwarp",
                                IF runs[r].input_file = MergedTif
                                THEN shared[MergedTif] ELSE 0,
                                Wgs84Tif, o))
          /\ shared' = WrittenBy(shared, Wgs84Tif, r, o)
          /\ IF o.rc # 0 THEN RunExit(r, 1) ELSE RunGoto(r, "td_tile")
    /\ UNCHANGED <<prog, pipeVars, srvVars>>

\* CT_Tile on a private copy of the raster: the run reads what it wrote
CT_Tile_private(r) ==
    /\ prog = "terrain" /\ runs[r].pc = "td_tile"
    /\ \E o \in ConcOutcomes :
          /\ clog' = Append(clog, ConcInvocation(r, "ctb-tile", r,
                                                 OUTPUT_DIR, o))
          /\ IF o.rc # 0 THEN RunExit(r, 1) ELSE RunGoto(r, "td_layer")
    /\ UNCHANGED <<prog, pipeVars, srvVars, shared>>

\* process_with_docker: ctb-tile -C -N reads data/processed/wgs84.tif
CT_Tile(r) ==
    /\ prog = "terrain" /\ runs[r].pc = "td_tile"
    /\ \E o \in ConcOutcomes :
          /\ clog' = Append(clog, ConcInvocation(r, "ctb-tile",
                                                 shared[Wgs84Tif],
                                                 OUTPUT_DIR, o))
          /\ IF o.rc # 0 THEN RunExit(r, 1) ELSE RunGoto(r, "td_layer")
    /\ UNCHANGED <<prog, pipeVars, srvVars, shared>>

\* process_with_docker: ctb-tile -l, then verify_output in main
CT_Layer(r) ==
    /\ prog = "terrain" /\ runs[r].pc = "td_layer"
    /\ \E o \in ConcOutcomes :
          /\ clog' = Append(clog, ConcInvocation(r, "ctb-tile -l",
                                                 shared[Wgs84Tif],
                                                 LayerJson, o))
          /\ shared' = WrittenBy(shared, LayerJson, r, o)
          /\ RunExit(r, IF o.rc # 0 THEN 1 ELSE 0)
    /\ UNCHANGED <<prog, pipeVars, srvVars>>

\* convert_laz_to_dem_docker: pipeline.json, pdal pipeline, output.tif
\* moved to dem.tif
CL_Convert(r) ==
    /\ prog = "laz" /\ runs[r].pc = "l_convert"
    /\ \E o \in ConcOutcomes :
          LET s1 == [shared EXCEPT ![PipelineJson] = r]
              s2 == IF o.wrote
                    THEN [s1 EXCEPT ![OutputTif] = 0, ![DemTif] = r]
                    ELSE s1
          IN  /\ clog' = Append(clog, ConcInvocation(r, "pdal pipeline", 0,
                                                     OutputTif, o))
              /\ shared' = s2
              /\ IF o.rc # 0 THEN RunGoto(r, "l_fallback")
                 ELSE runs' = [runs EXCEPT
                                  ![r].pc = "l_check",
                                  ![r].success = PyBool(s2[DemTif] # 0)]
    /\ UNCHANGED <<prog, pipeVars, srvVars>>

\* convert_laz_simple_docker: pdal translate straight into dem.tif
CL_Fallback(r) ==
    /\ prog = "laz" /\ runs[r].pc = "l_fallback"
    /\ \E o \in ConcOutcomes :
          /\ clog' = Append(clog, ConcInvocation(r, "pdal translate", 0,
                                                 DemTif, o))
          /\ shared' = WrittenBy(shared, DemTif, r, o)
          /\ runs' = [runs EXCEPT ![r].pc = "l_check",
                                  ![r].success = PyBool(shared'[DemTif] # 0)]
    /\ UNCHANGED <<prog, pipeVars, srvVars>>

\* main(): "if not success or not dem_file.exists()"
CL_Check(r) ==
    /\ prog = "laz" /\ runs[r].pc = "l_check"
    /\ IF runs[r].success # "True" \/ shared[DemTif] = 0
       THEN RunExit(r, 1) ELSE RunGoto(r, "l_reproject")
    /\ UNCHANGED <<prog, pipeVars, srvVars, shared, clog>>

\* reproject_to_wgs84: docker gdalwarp dem.tif -> wgs84.tif; no local
\* gdalwarp on this host, so a missing wgs84.tif is a failure
CL_Reproject(r) ==
    /\ prog = "laz" /\ runs[r].pc = "l_reproject"
    /\ \E o \in ConcOutcomes :
          /\ clog' = Append(clog, ConcInvocation(r, "gdalwarp",
                                                 shared[DemTif], Wgs84Tif, o))
          /\ shared' = WrittenBy(shared, Wgs84Tif, r, o)
          /\ IF shared'[Wgs84Tif] # 0 THEN RunGoto(r, "l_tile")
             ELSE RunExit(r, 1)
    /\ UNCHANGED <<prog, pipeVars, srvVars>>

\* create_terrain_tiles: ctb-tile -C -N reads data/processed/wgs84.tif
CL_Tile(r) ==
    /\ prog = "laz" /\ runs[r].pc = "l_tile"
    /\ \E o \in ConcOutcomes :
          clog' = Append(clog, ConcInvocation(r, "ctb-tile",
                                              shared[Wgs84Tif], OUTPUT_DIR, o))
    /\ RunGoto(r, "l_layer")
    /\ UNCHANGED <<prog, pipeVars, srvVars, shared>>

\* create_terrain_tiles: ctb-tile -l, then main returns
CL_Layer(r) ==
    /\ prog = "laz" /\ runs[r].pc = "l_layer"
    /\ \E o \in ConcOutcomes :
          /\ clog' = Append(clog, ConcInvocation(r, "ctb-tile -l",
                                                 shared[Wgs84Tif],
                                                 LayerJson, o))
          /\ shared' = WrittenBy(shared, LayerJson, r, o)
    /\ RunExit(r, 0)
    /\ UNCHANGED <<prog, pipeVars, srvVars>>

ConcInit ==
    /\ prog \in {"terrain", "laz"}
    /\ argv = "none"
    /\ rawCount \in 1..MaxRaw
    /\ tools = [docker |-> TRUE, pdal |-> FALSE, gdal |-> FALSE, ctb |-> FALSE]
    /\ fs = {RAW_DATA_DIR}
    /\ fs0 = fs
    /\ nTerrain = 0
    /\ pc = "concurrent"
    /\ deps = NoDeps
    /\ input_files = <<>>
    /\ input_file = "unset"
    /\ success = "unset"
    /\ log = <<>>
    /\ exitStatus = -1
    /\ verified = "unset"
    /\ req = NoRequest
    /\ resp = NoResponse
    /\ runs = [r \in Runs |->
                 [IdleRun EXCEPT !.pc = IF prog = "terrain" THEN "t_process"
                                        ELSE "l_convert"]]
    /\ shared = [f \in SharedPaths |-> 0]
    /\ clog = <<>>

ConcNext ==
    \E r \in Runs :
        \/ CT_Merge(r) \/ CT_Single(r) \/ CT_Reproject(r)
        \/ CT_Tile(r) \/ CT_Layer(r)
        \/ CL_Convert(r) \/ CL_Fallback(r) \/ CL_Check(r)
        \/ CL_Reproject(r) \/ CL_Tile(r) \/ CL_Layer(r)

ConcSpec == ConcInit /\ [][ConcNext]_vars

----------------------------------------------------------------------------
(* Properties *)

Pipeline == prog \in {"terrain", "laz"}

NoInput == argv = "none" /\ rawCount = 0

MissingInput == NoInput \/ argv = "missing"

Invoked(tool) == \E i \in 1..Len(log) : log[i].tool = tool

ConversionTools ==
    {"pdal pipeline", "pdal translate", "gdal_merge.py", "gdalwarp", "ctb-tile"}

\* the tools found on the host can run every stage of the script: for
\* process_terrain docker or gdalwarp + ctb-tile; for process_laz conversion
\* (docker or pdal), reprojection (docker or gdalwarp) and tiling (docker)
Sufficient ==
    IF prog = "terrain"
    THEN tools.docker \/ (tools.gdal /\ tools.ctb)
    ELSE /\ tools.docker \/ tools.pdal
         /\ tools.docker \/ tools.gdal
         /\ tools.docker

\* C1: with no path argument and no matching file in data/raw, both
\* pipelines invoke no external tool, create nothing in data/processed or
\* terrain-tiles, and never end with exit status 0.
C1_NoInputFails ==
    (Pipeline /\ NoInput) =>
        /\ log = <<>>
        /\ fs \cap (ProcessedPaths \cup OutputPaths)
             = fs0 \cap (ProcessedPaths \cup OutputPaths)
        /\ exitStatus # 0
        /\ (pc = "done" => exitStatus = 1)

\* a run that looked into data/raw, found nothing and ended
C1_Witness ==
    /\ Pipeline /\ NoInput /\ pc = "done" /\ exitStatus = 1
    /\ RAW_DATA_DIR \in fs \ fs0

\* C2: when the tools on the host are not sufficient for every stage, the
\* pipeline invokes no conversion subprocess and ends with a non-zero exit
\* status.
C2_InsufficientToolsAbort ==
    (Pipeline /\ ~Sufficient) =>
        /\ \A i \in 1..Len(log) : log[i].tool \notin ConversionTools
        /\ exitStatus # 0

\* C3 as claimed: every response sent carries Content-Encoding: gzip and
\* Content-Type: application/octet-stream when self.path ends in .terrain,
\* and no Content-Encoding otherwise.
C3_EveryResponse ==
    resp.sent =>
        IF EndsWith(req.path, TerrainExt)
        THEN /\ HasHeader(resp, "Content-Encoding", "gzip")
             /\ HasHeader(resp, "Content-Type", "application/octet-stream")
        ELSE ~HasHeaderName(resp, "Content-Encoding")

\* C3: every response sent to an HTTP/1.0 or HTTP/1.1 request (any method,
\* any status) carries Content-Encoding: gzip and Content-Type:
\* application/octet-stream when self.path ends in .terrain, and no
\* Content-Encoding header otherwise.
C3_HeadersFollowPath ==
    (resp.sent /\ req.version # "HTTP/0.9") =>
        IF EndsWith(req.path, TerrainExt)
        THEN /\ HasHeader(resp, "Content-Encoding", "gzip")
             /\ HasHeader(resp, "Content-Type", "application/octet-stream")
        ELSE ~HasHeaderName(resp, "Content-Encoding")

\* an error response for a missing tile, sent with both headers
C3_Witness ==
    /\ resp.sent /\ req.version = "HTTP/1.1" /\ resp.status = 404
    /\ req.path = PathTile
    /\ HasHeader(resp, "Content-Encoding", "gzip")
    /\ HasHeader(resp, "Content-Type", "application/octet-stream")

\* C4 as claimed: every response sent includes
\* Access-Control-Allow-Origin: *.
C4_EveryResponse ==
    resp.sent => HasHeader(resp, "Access-Control-Allow-Origin", "*")

\* C4: every response sent to an HTTP/1.0 or HTTP/1.1 request, for any path
\* and any method, includes Access-Control-Allow-Origin: *.
C4_CorsOnHeaders ==
    (resp.sent /\ req.version # "HTTP/0.9") =>
        HasHeader(resp, "Access-Control-Allow-Origin", "*")

\* the error response to an unsupported method on a path that is no tile
C4_Witness ==
    /\ resp.sent /\ resp.status = 501 /\ req.command = "POST"
    /\ req.path = PathLayer
    /\ HasHeader(resp, "Access-Control-Allow-Origin", "*")

\* C5: an OPTIONS request to any path is answered with status 200, an empty
\* body and no Content-Encoding header.
C5_OptionsBare ==
    (req.line = "ok" /\ req.command = "OPTIONS") =>
        /\ resp.sent
        /\ resp.status = 200
        /\ resp.body = "none"
        /\ ~HasHeaderName(resp, "Content-Encoding")

PrimaryFailed ==
    \E i \in 1..Len(log) : log[i].tool = "pdal pipeline" /\ log[i].rc # 0

\* C6: in process_laz, once the primary pdal pipeline has exited non-zero,
\* the run does not go on to report the conversion as failed (or to any
\* later step) without pdal translate having been invoked.
C6_FallbackBeforeFailure ==
    (prog = "laz" /\ PrimaryFailed /\ pc # "l_fallback") =>
        Invoked("pdal translate")

\* C7: verify_output returns True exactly when layer.json exists in
\* terrain-tiles, whatever the number of tiles.
C7_VerifyIffLayerJson ==
    (prog = "terrain" /\ verified # "unset") =>
        (verified = PyBool(LayerJson \in fs))

\* verify_output succeeded on a directory without a single tile
C7_Witness ==
    /\ prog = "terrain" /\ verified = "True" /\ nTerrain = 0
    /\ LayerJson \in fs

\* C8: in process_terrain, with more than one input every gdalwarp
\* invocation comes after a completed gdal_merge and reads merged.tif; with
\* exactly one input no merge is invoked and gdalwarp reads that input.
C8_MergeBeforeReproject ==
    prog = "terrain" =>
        \A i \in 1..Len(log) :
            /\ (log[i].tool = "gdalwarp" /\ Len(input_files) > 1) =>
                   /\ \E j \in 1..(i - 1) :
                         /\ log[j].tool = "gdal_merge.py"
                         /\ log[j].rc = 0
                         /\ log[j].via = log[i].via
                   /\ log[i].input = <<MergedTif>>
            /\ (log[i].tool = "gdalwarp" /\ Len(input_files) = 1) =>
                   log[i].input = <<input_files[1]>>
            /\ (log[i].tool = "gdal_merge.py") => Len(input_files) > 1

\* two rasters merged and reprojected with the local tools
C8_Witness ==
    /\ prog = "terrain" /\ Len(input_files) = 2
    /\ Len(log) >= 2
    /\ log[1].tool = "gdal_merge.py" /\ log[1].via = "local"
    /\ log[2].tool = "gdalwarp" /\ log[2].input = <<MergedTif>>

TilingFailed ==
    \E i \in 1..Len(log) :
        log[i].tool = "ctb-tile" /\ log[i].rc # 0 /\ ~log[i].wrote

\* C9: a pipeline run that ends after missing dependencies, missing input
\* or a failed tiling subprocess, or that ends without layer.json in
\* terrain-tiles, does not end with exit status 0.
C9_FailureExitsNonZero ==
    (Pipeline /\ pc = "done"
       /\ (~Sufficient \/ MissingInput \/ TilingFailed \/ LayerJson \notin fs))
        => exitStatus # 0

AllSucceeded == \A i \in 1..Len(log) : log[i].rc = 0 /\ log[i].wrote

\* C10: a process_terrain run that starts processing exactly one existing
\* raster terminates, and if every subprocess succeeded and wrote its
\* output it ends with layer.json present, verify_output True and status 0.
C10_OneInputSucceeds ==
    (pc = "t_process" /\ Len(input_files) = 1)
        ~> (pc = "done"
              /\ (AllSucceeded =>
                     /\ LayerJson \in fs
                     /\ verified = "True"
                     /\ exitStatus = 0))

\* a one-raster run in which all three tool calls succeeded
C10_Witness ==
    /\ prog = "terrain" /\ pc = "done" /\ Len(input_files) = 1
    /\ Len(log) = 3 /\ AllSucceeded
    /\ LayerJson \in fs /\ verified = "True" /\ exitStatus = 0

\* the log entries of the transformation steps (pdal info is not one)
Steps == {i \in 1..Len(log) : log[i].tool \in ConversionTools}

\* C11: every transformation step is invoked through docker exactly when
\* docker is available on the host, and through the local executable
\* otherwise.
C11_StrategyFollowsDocker ==
    Pipeline =>
        \A i \in Steps : (log[i].via = "docker") <=> tools.docker

\* the invocation exited non-zero and left no output
Failed(e) == e.rc # 0 /\ ~e.wrote

\* C12: a failed step is the last step of the run, except that a failed
\* pdal pipeline is followed by pdal translate; gdalwarp is invoked at most
\* once per run.
C12_FailureIsTerminal ==
    Pipeline =>
        /\ \A i \in Steps :
              (Failed(log[i]) /\ i < Len(log)) =>
                  /\ log[i].tool = "pdal pipeline"
                  /\ log[i + 1].tool = "pdal translate"
        /\ Cardinality({i \in Steps : log[i].tool = "gdalwarp"}) <= 1

\* position of a step in INPUT_SELECTED -> RASTER_PRODUCED -> REPROJECTED ->
\* TILED -> LAYER_METADATA_WRITTEN
Stage(e) ==
    IF e.tool \in {"pdal pipeline", "pdal translate", "gdal_merge.py"} THEN 1
    ELSE IF e.tool = "gdalwarp" THEN 2
    ELSE IF e.mode = MeshFlags THEN 3
    ELSE 4

\* C13: the steps of a run go through the stages in order without
\* repeating one (the conversion fallback apart); ctb-tile -l is invoked
\* only right after a ctb-tile -C -N that exited 0; a run that ends with
\* status 0 invoked ctb-tile exactly twice.
C13_StagesInOrder ==
    Pipeline =>
        /\ \A i, j \in Steps :
              i < j =>
                  \/ Stage(log[i]) < Stage(log[j])
                  \/ /\ log[i].tool = "pdal pipeline"
                     /\ log[j].tool = "pdal translate"
        /\ \A j \in Steps :
              (log[j].tool = "ctb-tile" /\ log[j].mode = LayerFlags) =>
                  /\ j > 1
                  /\ log[j - 1].tool = "ctb-tile"
                  /\ log[j - 1].mode = MeshFlags
                  /\ log[j - 1].rc = 0
        /\ (pc = "done" /\ exitStatus = 0) =>
              Cardinality({i \in Steps : log[i].tool = "ctb-tile"}) = 2

\* flag a directly followed by value b on a command line
HasOption(flags, a, b) ==
    \E k \in 1..(Len(flags) - 1) : flags[k] = a /\ flags[k + 1] = b

\* C14: every gdalwarp invocation passes -t_srs EPSG:4326, -r bilinear,
\* -of GTiff and a -co compression option, and all gdalwarp invocations of
\* one run pass the same flags.
C14_ReprojectionSettings ==
    Pipeline =>
        \A i \in Steps :
            log[i].tool = "gdalwarp" =>
                /\ HasOption(log[i].mode, "-t_srs", "EPSG:4326")
                /\ HasOption(log[i].mode, "-r", "bilinear")
                /\ HasOption(log[i].mode, "-of", "GTiff")
                /\ \E k \in 1..Len(log[i].mode) : log[i].mode[k] = "-co"
                /\ \A j \in Steps :
                      log[j].tool = "gdalwarp" => log[j].mode = log[i].mode

\* C16: in process_laz the conversion does not report success when every
\* conversion subprocess of this run failed, and reprojection does not
\* report success (tiling is not reached) when every gdalwarp of this run
\* failed, whatever an earlier run left in data/processed.
C16_SuccessNeedsOwnOutput ==
    prog = "laz" =>
        /\ success = "True" =>
              \E i \in Steps :
                  /\ log[i].tool \in {"pdal pipeline", "pdal translate"}
                  /\ ~Failed(log[i])
        /\ (pc = "l_tile" \/ Invoked("ctb-tile")) =>
              \E i \in Steps : log[i].tool = "gdalwarp" /\ ~Failed(log[i])

\* the run that last wrote path f before position i of clog, 0 if none
LastWriter(i, f) ==
    LET ws == {j \in 1..(i - 1) : clog[j].output = f /\ clog[j].wrote}
    IN  IF ws = {} THEN 0
        ELSE clog[CHOOSE j \in ws : \A k \in ws : k <= j].run

\* C15: with two concurrent runs, every tiling invocation reads the
\* wgs84.tif that the most recent gdalwarp of either run wrote: the path is
\* one fixed location with no locking, so the raster a run tiles is not
\* tied to that run.
C15_TilingReadsLastWriter ==
    \A i \in 1..Len(clog) :
        clog[i].tool \in {"ctb-tile", "ctb-tile -l"} =>
            clog[i].reads = LastWriter(i, Wgs84Tif)

\* a run that reprojected its own raster tiles the raster of the other run
C15_Witness ==
    \E i \in 1..Len(clog) :
        /\ clog[i].tool = "ctb-tile"
        /\ clog[i].reads \notin {0, clog[i].run}
        /\ \E j \in 1..(i - 1) :
              /\ clog[j].run = clog[i].run
              /\ clog[j].tool = "gdalwarp"
              /\ clog[j].wrote

====
